---- MODULE Spec2Model ----
(***************************************************************************)
(* A model of src/main.rs: a MIPS instruction-trace statistics tool.       *)
(* main parses the flags, buffers the whole of stdin as 32-bit words, and  *)
(* then runs the selected report (formats, opcodes or registers).          *)
(*                                                                         *)
(* A u32 is the record [hi, lo] of its two 16-bit halves, since the        *)
(* model checker's integers are narrower than 2^32.  A line of stdin is    *)
(* the sequence of its one-byte characters.  A printed row is the tuple of *)
(* its label and counts; the percentage column (f32 arithmetic) is not     *)
(* modelled.                                                               *)
(***************************************************************************)
EXTENDS Integers, Sequences, FiniteSets, TLC

VARIABLES
    pc,                 \* position of the process in main and its callees
    panic_msg,          \* message of the panic that aborted the process, or "none"
    args,               \* env::args(): program name, then the arguments
    argi,               \* number of arguments the loop of parse_args has consumed
    config,             \* ProgramConfig
    stdin,              \* the lines of standard input
    cursor,             \* number of lines read_line has consumed
    input,              \* parse_instructions: the line buffer
    instructions,       \* the Vec<u32> of parsed words
    i,                  \* number of instructions the running handler has folded
    ins,                \* the InsType the running handler matched last
    i_type, j_type, r_type,             \* handle_instructions counters
    opcode_counts,                      \* handle_opcodes table
    reg_count_r_type, reg_count_i_type, \* handle_registers tables
    out                 \* rows printed on stdout, in order

vars == <<pc, panic_msg, args, argi, config, stdin, cursor, input, instructions,
          i, ins, i_type, j_type, r_type, opcode_counts,
          reg_count_r_type, reg_count_i_type, out>>

(***************************************************************************)
(* Bounds of the model.                                                    *)
(***************************************************************************)
MaxArgs == 4
MaxLines == 3
MaxInstrs == 3
MaxMainArgs == 2
MaxMainLines == 2

SeqsUpTo(S, n) == UNION {[1..k -> S] : k \in 0..n}

(***************************************************************************)
(* 32-bit words and the bit operations the source applies to them.         *)
(***************************************************************************)
Half == 2^16

W(hi, lo) == [hi |-> hi, lo |-> lo]

RECURSIVE And16(_, _, _)
And16(a, b, n) ==
    IF n = 0 THEN 0
    ELSE (IF a % 2 = 1 /\ b % 2 = 1 THEN 1 ELSE 0)
         + 2 * And16(a \div 2, b \div 2, n - 1)

\* w & m
BitAnd(w, m) == W(And16(w.hi, m.hi, 16), And16(w.lo, m.lo, 16))

\* w >> n, 0 <= n < 32
Shr(w, n) ==
    IF n >= 16
    THEN W(0, w.hi \div 2^(n - 16))
    ELSE W(w.hi \div 2^n,
           (w.lo \div 2^n) + (w.hi % 2^n) * 2^(16 - n))

\* the casts `as u8`, `as u16`, `as u32` of a u32
AsU8(w) == w.lo % 256
AsU16(w) == w.lo
AsU32(w) == w

Zero32 == W(0, 0)

(***************************************************************************)
(* instruction_type (main.rs 268-294)                                      *)
(***************************************************************************)
JType(op, addr) == [tag |-> "JType", op |-> op, addr |-> addr]
RType(rs, rt, rd, shamt, func) ==
    [tag |-> "RType", rs |-> rs, rt |-> rt, rd |-> rd, shamt |-> shamt, func |-> func]
IType(op, rs, rt, imm) ==
    [tag |-> "IType", op |-> op, rs |-> rs, rt |-> rt, imm |-> imm]
NoIns == [tag |-> "none"]

\* A jump predicate that tests bit 21 where the source tests bit 27.
is_j_type_bit21(instruction) ==
    \/ BitAnd(instruction, W(\h0020, \h0000)) = W(\h0020, \h0000)
    \/ BitAnd(instruction, W(\h0030, \h0000)) = W(\h0030, \h0000)

is_j_type(instruction) ==
    \/ BitAnd(instruction, W(\h0800, \h0000)) = W(\h0800, \h0000)
    \/ BitAnd(instruction, W(\h0C00, \h0000)) = W(\h0C00, \h0000)

\* the R-format test of the else-if branch
is_r_type(instruction) ==
    BitAnd(instruction, W(\hFC00, \h0000)) = Zero32

\* instruction_type with the jump address masked to 26 bits
instruction_type_addr26(instruction) ==
    IF is_j_type(instruction)
    THEN JType(AsU8(Shr(instruction, 26)),
               AsU32(BitAnd(instruction, W(\h03FF, \hFFFF))))
    ELSE IF is_r_type(instruction)
    THEN RType(AsU8(Shr(instruction, 21)),
               AsU8(BitAnd(Shr(instruction, 16), W(\h0000, \h001F))),
               AsU8(BitAnd(Shr(instruction, 11), W(\h0000, \h001F))),
               AsU8(BitAnd(Shr(instruction, 6), W(\h0000, \h001F))),
               AsU8(BitAnd(instruction, W(\h0000, \h003F))))
    ELSE IType(AsU8(Shr(instruction, 26)),
               AsU8(BitAnd(Shr(instruction, 21), W(\h0000, \h001F))),
               AsU8(BitAnd(Shr(instruction, 16), W(\h0000, \h001F))),
               AsU16(BitAnd(instruction, W(\h0000, \hFFFF))))

instruction_type(instruction) ==
    IF is_j_type(instruction)
    THEN JType(AsU8(Shr(instruction, 26)),
               AsU32(BitAnd(instruction, W(\h0000, \hFFFF))))
    ELSE IF is_r_type(instruction)
    THEN RType(AsU8(Shr(instruction, 21)),
               AsU8(BitAnd(Shr(instruction, 16), W(\h0000, \h001F))),
               AsU8(BitAnd(Shr(instruction, 11), W(\h0000, \h001F))),
               AsU8(BitAnd(Shr(instruction, 6), W(\h0000, \h001F))),
               AsU8(BitAnd(instruction, W(\h0000, \h003F))))
    ELSE IType(AsU8(Shr(instruction, 26)),
               AsU8(BitAnd(Shr(instruction, 21), W(\h0000, \h001F))),
               AsU8(BitAnd(Shr(instruction, 16), W(\h0000, \h001F))),
               AsU16(BitAnd(instruction, W(\h0000, \hFFFF))))

(***************************************************************************)
(* parse_args (main.rs 58-93)                                              *)
(***************************************************************************)
DefaultConfig ==
    [human_readable |-> FALSE, instructions |-> FALSE,
     opcodes |-> FALSE, registers |-> FALSE]

\* the four `if`s of the loop body, in source order
ArgU(c, arg) == IF arg = "-u" THEN [c EXCEPT !.human_readable = TRUE] ELSE c
ArgI(c, arg) ==
    IF arg = "-i" /\ ~c.opcodes /\ ~c.registers
    THEN [c EXCEPT !.instructions = TRUE] ELSE c
ArgO(c, arg) ==
    IF arg = "-o" /\ ~c.instructions /\ ~c.registers
    THEN [c EXCEPT !.opcodes = TRUE] ELSE c
ArgR(c, arg) ==
    IF arg = "-r" /\ ~c.opcodes /\ ~c.instructions
    THEN [c EXCEPT !.registers = TRUE] ELSE c

\* a loop body whose -o branch forgets the guard on the other modes
ApplyArgLastWins(c, arg) ==
    ArgR(IF arg = "-o" THEN [ArgI(ArgU(c, arg), arg) EXCEPT !.opcodes = TRUE]
         ELSE ArgI(ArgU(c, arg), arg), arg)

ApplyArg(c, arg) == ArgR(ArgO(ArgI(ArgU(c, arg), arg), arg), arg)

(***************************************************************************)
(* u32::from_str_radix(digit_str, 16)                                      *)
(***************************************************************************)
Digits ==
    <<"0", "1", "2", "3", "4", "5", "6", "7", "8", "9",
      "a", "b", "c", "d", "e", "f">>
UpperDigits ==
    <<"0", "1", "2", "3", "4", "5", "6", "7", "8", "9",
      "A", "B", "C", "D", "E", "F">>

\* char::to_digit(16): the digit's value, or -1 for None
ToDigit(ch) ==
    IF \E d \in 1..16 : Digits[d] = ch
    THEN (CHOOSE d \in 1..16 : Digits[d] = ch) - 1
    ELSE IF \E d \in 1..16 : UpperDigits[d] = ch
    THEN (CHOOSE d \in 1..16 : UpperDigits[d] = ch) - 1
    ELSE -1

ParseErr == [ok |-> FALSE, val |-> Zero32]
ParseOk(w) == [ok |-> TRUE, val |-> w]

\* result * 16 + d on a u32, checked for overflow
RECURSIVE ParseDigits(_, _)
ParseDigits(digits, acc) ==
    IF digits = <<>> THEN ParseOk(acc)
    ELSE LET d == ToDigit(Head(digits))
             lo == acc.lo * 16 + d
             hi == acc.hi * 16 + (lo \div Half)
         IN  IF d < 0 \/ hi >= Half THEN ParseErr
             ELSE ParseDigits(Tail(digits), W(hi, lo % Half))

\* an unsigned target: empty is an error, a lone sign is an error, a leading
\* "+" is skipped, "-" is an invalid digit
from_str_radix_16(src) ==
    IF src = <<>> THEN ParseErr
    ELSE IF Len(src) = 1 /\ Head(src) \in {"+", "-"} THEN ParseErr
    ELSE IF Head(src) = "+" THEN ParseDigits(Tail(src), Zero32)
    ELSE ParseDigits(src, Zero32)

(***************************************************************************)
(* Inputs: argument vectors and lines of stdin.                            *)
(***************************************************************************)
ArgStrings == {"prog", "-u", "-i", "-o", "-r"}

HexLine(d) == <<"0", "x">> \o d \o <<"\n">>

L_R == HexLine(<<"0", "0", "A", "5", "5", "0", "2", "0">>)     \* rs=5 rt=5 rd=10
L_RMax == HexLine(<<"0", "3", "f", "f", "f", "f", "f", "f">>)  \* every R field all ones
L_J == HexLine(<<"0", "8", "0", "0", "0", "0", "0", "5">>)     \* opcode 2
L_Addi == HexLine(<<"2", "0", "a", "5", "0", "0", "0", "5">>)  \* opcode 8, rs=5 rt=5
L_Lw == HexLine(<<"8", "C", "4", "1", "0", "0", "0", "4">>)    \* opcode 35
L_Op63 == HexLine(<<"F", "F", "F", "F", "F", "F", "F", "F">>)  \* opcode 63
L_Bad == HexLine(<<"Z", "Z", "Z", "Z", "Z", "Z", "Z", "Z">>)
L_Plus == HexLine(<<"+", "0", "0", "A", "5", "0", "2", "0">>)
L_Short == HexLine(<<"1", "2", "3", "4">>)
L_Long == HexLine(<<"1", "2", "3", "4", "5", "6", "7", "8", "9">>)
L_Blank == <<"\n">>
\* a line read_line fails on (an I/O error, or bytes that are not UTF-8)
IoError == <<"io::Error">>

WordLines == {L_R, L_RMax, L_J, L_Addi, L_Lw}
SweepChars == {"0", "1", "2", "3", "4", "5", "6", "7", "8", "9",
               "A", "B", "C", "D", "E", "F"}
SweepLines ==
    {HexLine(<<a, b, c, c, e, e, e, e>>) :
        a \in SweepChars, b \in SweepChars, c \in {"0", "F"}, e \in {"0", "F"}}
ReadLines ==
    {L_R, L_J, L_Addi, L_Op63, L_Bad, L_Plus, L_Short, L_Long, L_Blank, IoError}
MainLines == {L_R, L_Lw, L_Bad, L_Plus, L_Short, IoError}

(***************************************************************************)
(* parse_instructions (main.rs 95-123)                                     *)
(***************************************************************************)
LineLen == 11

\* a loop exit that only tests for short lines
LoopEndsOnShort(bytes) == bytes < LineLen

\* `if bytes != 11`
LoopEnds(bytes) == bytes # LineLen

\* &input.as_str()[2..input.len() - 1]
digit_str(buf) == SubSeq(buf, 3, Len(buf) - 1)

MsgRead == "Failed to convert instructions, error reading stdin"
MsgDigits == "Could not parse digits"
MsgIndex == "index out of bounds"

(***************************************************************************)
(* The tables of the handlers.                                             *)
(***************************************************************************)
OpcodeSlots == 63
RegSlots == 32

ZeroOpcodes == [k \in 0..(OpcodeSlots - 1) |-> 0]
ZeroRegs == [k \in 0..(RegSlots - 1) |-> 0]

reg_map ==
    <<"zero", "at", "v0", "v1", "a0", "a1", "a2", "a3", "t0", "t1", "t2", "t3",
      "t4", "t5", "t6", "t7", "s0", "s1", "s2", "s3", "s4", "s5", "s6", "s7",
      "t8", "t9", "k0", "k1", "gp", "fp", "sp", "ra">>

\* a match whose JType arm counts nothing
FormatCountsNoJ(cnt, t) ==
    IF t.tag = "IType" THEN [cnt EXCEPT !.i_type = @ + 1]
    ELSE IF t.tag = "RType" THEN [cnt EXCEPT !.r_type = @ + 1]
    ELSE cnt

\* handle_instructions: the match of the loop body
FormatCounts(cnt, t) ==
    IF t.tag = "IType" THEN [cnt EXCEPT !.i_type = @ + 1]
    ELSE IF t.tag = "RType" THEN [cnt EXCEPT !.r_type = @ + 1]
    ELSE [cnt EXCEPT !.j_type = @ + 1]

\* handle_opcodes: the indices the loop body accesses for t
OpcodeIndices(t) == IF t.tag \in {"JType", "IType"} THEN {t.op} ELSE {}

\* a match that has no IType arm
OpcodeCountsJOnly(counts, t) ==
    IF t.tag = "JType" THEN [counts EXCEPT ![t.op] = @ + 1]
    ELSE counts

\* handle_opcodes: the match of the loop body, all indices in bounds
OpcodeCounts(counts, t) ==
    IF t.tag \in {"JType", "IType"} THEN [counts EXCEPT ![t.op] = @ + 1]
    ELSE counts

\* handle_registers: the indices the loop body accesses for t
RegIndices(t) ==
    IF t.tag = "RType" THEN {t.rs, t.rt, t.rd}
    ELSE IF t.tag = "IType" THEN {t.rs, t.rt}
    ELSE {}

Bump(counts, k) == [counts EXCEPT ![k] = @ + 1]

\* an RType arm that counts a register once however many fields name it
RegCountsROnce(counts, t) ==
    IF t.tag = "RType"
    THEN [k \in DOMAIN counts |->
            IF k \in {t.rs, t.rt, t.rd} THEN counts[k] + 1 ELSE counts[k]]
    ELSE counts

\* handle_registers: the RType arm
RegCountsR(counts, t) ==
    IF t.tag = "RType" THEN Bump(Bump(Bump(counts, t.rs), t.rt), t.rd)
    ELSE counts

\* handle_registers: the IType arm
RegCountsI(counts, t) ==
    IF t.tag = "IType" THEN Bump(Bump(counts, t.rs), t.rt)
    ELSE counts

RECURSIVE OpcodeRows(_, _)
OpcodeRows(counts, k) ==
    IF k = OpcodeSlots THEN <<>>
    ELSE <<<<k, counts[k]>>>> \o OpcodeRows(counts, k + 1)

RECURSIVE RegRows(_, _, _, _)
RegRows(rc, ic, human_readable, k) ==
    IF k = RegSlots THEN <<>>
    ELSE <<<<IF human_readable THEN <<"$", reg_map[k + 1]>> ELSE <<"0x", k>>,
             rc[k] + ic[k], rc[k], ic[k]>>>>
         \o RegRows(rc, ic, human_readable, k + 1)

(***************************************************************************)
(* Initial states: the process at the entry of main.                       *)
(***************************************************************************)
Start(argv, lines) ==
    /\ pc = "parse_args"
    /\ panic_msg = "none"
    /\ args = argv
    /\ argi = 0
    /\ config = DefaultConfig
    /\ stdin = lines
    /\ cursor = 0
    /\ input = <<>>
    /\ instructions = <<>>
    /\ i = 0
    /\ ins = NoIns
    /\ i_type = 0 /\ j_type = 0 /\ r_type = 0
    /\ opcode_counts = ZeroOpcodes
    /\ reg_count_r_type = ZeroRegs
    /\ reg_count_i_type = ZeroRegs
    /\ out = <<>>

\* any short argument vector, any short input
Init ==
    \E argv \in SeqsUpTo(ArgStrings, MaxMainArgs),
       lines \in SeqsUpTo(MainLines, MaxMainLines) : Start(argv, lines)

\* any argument vector, no input
InitArgs == \E argv \in SeqsUpTo(ArgStrings, MaxArgs) : Start(argv, <<>>)

\* no flags, any input
InitRead == \E lines \in SeqsUpTo(ReadLines, MaxLines) : Start(<<"prog">>, lines)

\* one mode, well-formed input: short streams, and single words that sweep
\* the opcode field
AggArgs ==
    {<<"prog", "-i">>, <<"prog", "-o">>, <<"prog", "-r">>,
     <<"prog", "-u", "-i">>, <<"prog", "-u", "-o">>, <<"prog", "-u", "-r">>}
InitAgg ==
    \E argv \in AggArgs,
       lines \in SeqsUpTo(WordLines, MaxInstrs) \cup {<<l>> : l \in SweepLines} :
        Start(argv, lines)

(***************************************************************************)
(* Actions.                                                                *)
(***************************************************************************)
Panic(msg) == pc' = "panicked" /\ panic_msg' = msg

\* parse_args: one iteration of `for arg in env::args()`
ParseArg ==
    /\ pc = "parse_args"
    /\ argi < Len(args)
    /\ config' = ApplyArg(config, args[argi + 1])
    /\ argi' = argi + 1
    /\ UNCHANGED <<pc, panic_msg, args, stdin, cursor, input, instructions, i, ins,
                   i_type, j_type, r_type, opcode_counts,
                   reg_count_r_type, reg_count_i_type, out>>

\* parse_args: `return config`, and main goes on to parse_instructions
ParseArgsReturn ==
    /\ pc = "parse_args"
    /\ argi = Len(args)
    /\ pc' = "parse_instructions"
    /\ UNCHANGED <<panic_msg, args, argi, config, stdin, cursor, input, instructions,
                   i, ins, i_type, j_type, r_type, opcode_counts,
                   reg_count_r_type, reg_count_i_type, out>>

\* parse_instructions: one iteration of the loop; on its return, main's expect
ReadLine ==
    /\ pc = "parse_instructions"
    /\ LET eof == cursor = Len(stdin)
           line == IF eof THEN <<>> ELSE stdin[cursor + 1]
           buf == input \o line
           bytes == Len(line)
           parsed == from_str_radix_16(digit_str(buf))
       IN  /\ cursor' = IF eof THEN cursor ELSE cursor + 1
           /\ IF line = IoError
              THEN Panic(MsgRead) /\ UNCHANGED <<input, instructions>>
              ELSE IF LoopEnds(bytes)
              THEN /\ pc' = "main_instructions"
                   /\ input' = buf
                   /\ UNCHANGED <<panic_msg, instructions>>
              ELSE IF ~parsed.ok
              THEN Panic(MsgDigits) /\ input' = buf /\ UNCHANGED instructions
              ELSE /\ instructions' = Append(instructions, parsed.val)
                   /\ input' = <<>>
                   /\ UNCHANGED <<pc, panic_msg>>
    /\ UNCHANGED <<args, argi, config, stdin, i, ins, i_type, j_type, r_type,
                   opcode_counts, reg_count_r_type, reg_count_i_type, out>>

\* main 28-34: the format report is selected or skipped
MainInstructions ==
    /\ pc = "main_instructions"
    /\ IF config.instructions
       THEN /\ pc' = "handle_instructions"
            /\ out' = IF config.human_readable
                      THEN Append(out, <<"TYPE", "COUNT", "PERCENT">>) ELSE out
            /\ i' = 0 /\ i_type' = 0 /\ j_type' = 0 /\ r_type' = 0
       ELSE /\ pc' = "main_opcodes"
            /\ UNCHANGED <<out, i, i_type, j_type, r_type>>
    /\ UNCHANGED <<panic_msg, args, argi, config, stdin, cursor, input, instructions,
                   ins, opcode_counts, reg_count_r_type, reg_count_i_type>>

\* handle_instructions: one iteration of the loop
HandleInstructionsStep ==
    /\ pc = "handle_instructions"
    /\ i < Len(instructions)
    /\ LET t == instruction_type(instructions[i + 1])
           cnt == FormatCounts([i_type |-> i_type, j_type |-> j_type,
                                r_type |-> r_type], t)
       IN  /\ ins' = t
           /\ i_type' = cnt.i_type /\ j_type' = cnt.j_type /\ r_type' = cnt.r_type
    /\ i' = i + 1
    /\ UNCHANGED <<pc, panic_msg, args, argi, config, stdin, cursor, input,
                   instructions, opcode_counts, reg_count_r_type,
                   reg_count_i_type, out>>

\* handle_instructions: the three rows, then back in main
HandleInstructionsPrint ==
    /\ pc = "handle_instructions"
    /\ i = Len(instructions)
    /\ out' = out \o <<<<"I-Type", i_type>>, <<"J-Type", j_type>>,
                       <<"R-Type", r_type>>>>
    /\ pc' = "main_opcodes"
    /\ UNCHANGED <<panic_msg, args, argi, config, stdin, cursor, input, instructions,
                   i, ins, i_type, j_type, r_type, opcode_counts,
                   reg_count_r_type, reg_count_i_type>>

\* main 36-42
MainOpcodes ==
    /\ pc = "main_opcodes"
    /\ IF config.opcodes
       THEN /\ pc' = "handle_opcodes"
            /\ out' = IF config.human_readable
                      THEN Append(out, <<"OPCODE", "COUNT", "PERCENT">>) ELSE out
            /\ i' = 0 /\ opcode_counts' = ZeroOpcodes
       ELSE /\ pc' = "main_registers"
            /\ UNCHANGED <<out, i, opcode_counts>>
    /\ UNCHANGED <<panic_msg, args, argi, config, stdin, cursor, input, instructions,
                   ins, i_type, j_type, r_type, reg_count_r_type, reg_count_i_type>>

\* handle_opcodes: one iteration of the loop; an index outside the table panics
HandleOpcodesStep ==
    /\ pc = "handle_opcodes"
    /\ i < Len(instructions)
    /\ LET t == instruction_type(instructions[i + 1])
       IN  /\ ins' = t
           /\ IF OpcodeIndices(t) \subseteq DOMAIN opcode_counts
              THEN /\ opcode_counts' = OpcodeCounts(opcode_counts, t)
                   /\ UNCHANGED <<pc, panic_msg>>
              ELSE /\ Panic(MsgIndex)
                   /\ UNCHANGED opcode_counts
    /\ i' = i + 1
    /\ UNCHANGED <<args, argi, config, stdin, cursor, input, instructions,
                   i_type, j_type, r_type, reg_count_r_type, reg_count_i_type, out>>

\* handle_opcodes: one row per slot, then back in main
HandleOpcodesPrint ==
    /\ pc = "handle_opcodes"
    /\ i = Len(instructions)
    /\ out' = out \o OpcodeRows(opcode_counts, 0)
    /\ pc' = "main_registers"
    /\ UNCHANGED <<panic_msg, args, argi, config, stdin, cursor, input, instructions,
                   i, ins, i_type, j_type, r_type, opcode_counts,
                   reg_count_r_type, reg_count_i_type>>

\* main 44-55
MainRegisters ==
    /\ pc = "main_registers"
    /\ IF config.registers
       THEN /\ pc' = "handle_registers"
            /\ out' = IF config.human_readable
                      THEN Append(out, <<"REG", "USE", "R-TYPE", "I-TYPE", "PERCENT">>)
                      ELSE out
            /\ i' = 0 /\ reg_count_r_type' = ZeroRegs /\ reg_count_i_type' = ZeroRegs
       ELSE /\ pc' = "exit"
            /\ UNCHANGED <<out, i, reg_count_r_type, reg_count_i_type>>
    /\ UNCHANGED <<panic_msg, args, argi, config, stdin, cursor, input, instructions,
                   ins, i_type, j_type, r_type, opcode_counts>>

\* handle_registers: one iteration of the loop; an index outside a table panics
HandleRegistersStep ==
    /\ pc = "handle_registers"
    /\ i < Len(instructions)
    /\ LET t == instruction_type(instructions[i + 1])
       IN  /\ ins' = t
           /\ IF RegIndices(t) \subseteq DOMAIN reg_count_r_type
              THEN /\ reg_count_r_type' = RegCountsR(reg_count_r_type, t)
                   /\ reg_count_i_type' = RegCountsI(reg_count_i_type, t)
                   /\ UNCHANGED <<pc, panic_msg>>
              ELSE /\ Panic(MsgIndex)
                   /\ UNCHANGED <<reg_count_r_type, reg_count_i_type>>
    /\ i' = i + 1
    /\ UNCHANGED <<args, argi, config, stdin, cursor, input, instructions,
                   i_type, j_type, r_type, opcode_counts, out>>

\* handle_registers: one row per register, then main returns
HandleRegistersPrint ==
    /\ pc = "handle_registers"
    /\ i = Len(instructions)
    /\ out' = out \o RegRows(reg_count_r_type, reg_count_i_type,
                             config.human_readable, 0)
    /\ pc' = "exit"
    /\ UNCHANGED <<panic_msg, args, argi, config, stdin, cursor, input, instructions,
                   i, ins, i_type, j_type, r_type, opcode_counts,
                   reg_count_r_type, reg_count_i_type>>

NextArgs == ParseArg \/ ParseArgsReturn

NextRead == ParseArg \/ ParseArgsReturn \/ ReadLine

Next ==
    \/ ParseArg \/ ParseArgsReturn \/ ReadLine
    \/ MainInstructions \/ HandleInstructionsStep \/ HandleInstructionsPrint
    \/ MainOpcodes \/ HandleOpcodesStep \/ HandleOpcodesPrint
    \/ MainRegisters \/ HandleRegistersStep \/ HandleRegistersPrint

\* the whole program on short inputs of every kind
Spec == Init /\ [][Next]_vars
\* parse_args on every argument vector
SpecArgs == InitArgs /\ [][NextArgs]_vars
\* parse_instructions on every input
SpecRead == InitRead /\ [][NextRead]_vars
\* the reports on well-formed input
SpecAgg == InitAgg /\ [][Next]_vars

(***************************************************************************)
(* Properties.                                                             *)
(***************************************************************************)
\* bits 31-26 of a word, read off its halves
Top6(w) == w.hi \div 1024
\* bits lo+n-1 .. lo of the upper half
HiBits(w, lo, n) == (w.hi \div 2^lo) % 2^n

AfterFormats == {"main_opcodes", "handle_opcodes", "main_registers",
                 "handle_registers", "exit"}

\* the decoded forms of the first n buffered words
RECURSIVE DecodedUpTo(_)
DecodedUpTo(n) ==
    IF n = 0 THEN <<>>
    ELSE Append(DecodedUpTo(n - 1), instruction_type(instructions[n]))
\* the positions of a decoded sequence that hold one of the tags
Tagged(D, tags) == {n \in 1..Len(D) : D[n].tag \in tags}

RECURSIVE SumTo(_, _)
SumTo(f, k) == IF k < 0 THEN 0 ELSE f[k] + SumTo(f, k - 1)

\* the handler has matched the i-th word
Matched == i > 0 /\ ins # NoIns

\* C1: opcode mode never indexes its table out of bounds: a word whose
\* opcode field is 63 is dropped without a count and the process does not
\* abort on it.
C1_Opcode63Dropped ==
    /\ panic_msg # MsgIndex
    /\ pc = "handle_opcodes"
          => SumTo(opcode_counts, OpcodeSlots - 1)
               = Cardinality({n \in Tagged(DecodedUpTo(i), {"IType", "JType"}) :
                                Top6(instructions[n]) # 63})

\* C2: every word decodes to exactly one of R, I, J, and the three format
\* counters add up to the number of instructions folded: to i inside the
\* loop, to the length of the stream when the rows are printed.
C2_FormatPartition ==
    LET D == DecodedUpTo(i)
    IN  /\ \A n \in 1..Len(D) :
              Cardinality({f \in {"RType", "IType", "JType"} : D[n].tag = f}) = 1
        /\ pc = "handle_instructions" => i_type + j_type + r_type = i
        /\ (config.instructions /\ pc \in AfterFormats)
              => /\ i = Len(instructions)
                 /\ i_type + j_type + r_type = Len(instructions)
                 /\ Len(out) >= 3
                 /\ LET rows == SubSeq(out, Len(out) - 2, Len(out))
                    IN  /\ rows[1] = <<"I-Type", Cardinality(Tagged(D, {"IType"}))>>
                        /\ rows[2] = <<"J-Type", Cardinality(Tagged(D, {"JType"}))>>
                        /\ rows[3] = <<"R-Type", Cardinality(Tagged(D, {"RType"}))>>
                        /\ rows[1][2] + rows[2][2] + rows[3][2] = Len(instructions)

C2_Witness ==
    /\ pc = "exit" /\ config.instructions
    /\ Len(instructions) = 3
    /\ i_type = 1 /\ j_type = 1 /\ r_type = 1

\* the format a decoder gives that tests for R-format before the jump predicate
decode_r_first(instruction) ==
    IF is_r_type(instruction) THEN "RType"
    ELSE IF is_j_type(instruction) THEN "JType"
    ELSE "IType"

\* C3: testing the R-format zero-check before the jump predicate gives the
\* format instruction_type gives, for every word a handler matches, and the
\* two predicates never hold of the same word.
C3_OrdersAgree ==
    Matched =>
       /\ ins.tag = decode_r_first(instructions[i])
       /\ ~(is_j_type(instructions[i]) /\ is_r_type(instructions[i]))

C3_Witness ==
    /\ Matched /\ ins.tag = "RType" /\ ins.rs = 31
    /\ is_r_type(instructions[i])

\* C4: every field instruction_type returns is in its range, and the rs of
\* an R result, shifted without a mask and truncated to 8 bits, is bits
\* 25-21 of the word.
C4_FieldRanges ==
    Matched =>
       /\ ins.tag = "RType" =>
             /\ ins.rs \in 0..31 /\ ins.rt \in 0..31 /\ ins.rd \in 0..31
             /\ ins.shamt \in 0..63 /\ ins.func \in 0..63
             /\ ins.rs = HiBits(instructions[i], 5, 5)
       /\ ins.tag = "IType" =>
             /\ ins.rs \in 0..31 /\ ins.rt \in 0..31
             /\ ins.imm \in 0..65535 /\ ins.op \in 0..63
       /\ ins.tag = "JType" =>
             /\ ins.addr.hi = 0 /\ ins.addr.lo \in 0..65535
             /\ ins.op \in 0..63

C4_Witness ==
    /\ Matched /\ ins.tag = "JType" /\ ins.op = 63
    /\ ins.addr = W(0, 65535)
    /\ instructions[i].hi = 65535

\* the (word, field) pairs of a decoded sequence, of one format, whose field
\* holds register k
FieldHits(D, tag, fields, k) ==
    Cardinality({p \in Tagged(D, {tag}) \X fields : D[p[1]][p[2]] = k})

\* C5: in register mode, entry k of the R table is the number of (R-format
\* instruction, field of rs, rt, rd) pairs that name k, entry k of the I
\* table the number of (I-format instruction, field of rs, rt) pairs; J-format
\* words change nothing; the tables sum to 3 x R count and 2 x I count; no
\* index outside 0..31 is accessed.
C5_RegisterAccounting ==
    (config.registers /\ pc \in {"handle_registers", "exit", "panicked"}) =>
       LET D == DecodedUpTo(i)
       IN  /\ pc # "panicked"
           /\ \A k \in 0..(RegSlots - 1) :
                 /\ reg_count_r_type[k] = FieldHits(D, "RType", {"rs", "rt", "rd"}, k)
                 /\ reg_count_i_type[k] = FieldHits(D, "IType", {"rs", "rt"}, k)
           /\ SumTo(reg_count_r_type, RegSlots - 1)
                 = 3 * Cardinality(Tagged(D, {"RType"}))
           /\ SumTo(reg_count_i_type, RegSlots - 1)
                 = 2 * Cardinality(Tagged(D, {"IType"}))
           /\ \A n \in 1..Len(D) : RegIndices(D[n]) \subseteq 0..(RegSlots - 1)

C5_Witness ==
    /\ pc = "exit" /\ config.registers
    /\ Len(instructions) = 1
    /\ reg_count_r_type[5] = 2 /\ reg_count_r_type[10] = 1
    /\ \A k \in 0..(RegSlots - 1) : reg_count_i_type[k] = 0
    /\ out[6][3] = 2 /\ out[11][3] = 1

\* the index of the first line whose byte count is not 11; end of file,
\* one past the last line, when every line has 11 bytes
StopAt ==
    LET S == {k \in 1..Len(stdin) : stdin[k] # IoError /\ Len(stdin[k]) # LineLen}
    IN  IF S = {} THEN Len(stdin) + 1
        ELSE CHOOSE k \in S : \A m \in S : k <= m

\* the word the 8 characters after "0x" spell
WordOf(line) == from_str_radix_16(SubSeq(line, 3, 10)).val

\* C6: the first line whose byte count is not 11 (end of file included) ends
\* the read loop without error; what parse_instructions returns is the words
\* of the 11-byte lines before it, in order; no line after it is read.
C6_InputTermination ==
    /\ cursor <= Len(stdin) /\ cursor <= StopAt
    /\ Len(instructions) < StopAt
    /\ pc = "panicked" => cursor < StopAt
    /\ pc = "main_instructions" =>
          /\ cursor = IF StopAt > Len(stdin) THEN Len(stdin) ELSE StopAt
          /\ instructions = [k \in 1..(StopAt - 1) |-> WordOf(stdin[k])]

C6_Witness ==
    /\ pc = "main_instructions"
    /\ Len(instructions) = 1
    /\ cursor = 2 /\ Len(stdin) = 3
    /\ Len(stdin[2]) > LineLen /\ Len(stdin[3]) = LineLen

\* some of the 8 characters after "0x" is no hexadecimal digit
NonHex(line) == \E n \in 3..10 : ToDigit(line[n]) < 0

\* C7: once an 11-byte line whose 8 digit characters are not hexadecimal has
\* been read, no terminating line before it, the process has aborted and has
\* printed no row; and no row is printed while the input is still being read.
C7_MalformedHexFatal ==
    /\ (\E k \in 1..cursor :
           /\ Len(stdin[k]) = LineLen /\ NonHex(stdin[k])
           /\ \A j \in 1..(k - 1) : Len(stdin[j]) = LineLen)
          => (pc = "panicked" /\ out = <<>>)
    /\ out # <<>> => pc \notin {"parse_args", "parse_instructions"}

ModeFlags == {"-i", "-o", "-r"}
\* the flags of the modes a configuration has on
ModesOf(c) ==
    {m \in ModeFlags : \/ m = "-i" /\ c.instructions
                       \/ m = "-o" /\ c.opcodes
                       \/ m = "-r" /\ c.registers}

\* C8: whatever arguments parse_args has processed, at most one mode is on;
\* it is the mode of the first of -i, -o, -r among them, if there is one, so
\* later arguments never clear or replace it; and human_readable is on
\* exactly when -u was among them.
C8_FirstModeWins ==
    LET seen == {k \in 1..argi : args[k] \in ModeFlags}
    IN  /\ Cardinality(ModesOf(config)) <= 1
        /\ seen = {} => ModesOf(config) = {}
        /\ seen # {} =>
              ModesOf(config) = {args[CHOOSE k \in seen : \A m \in seen : k <= m]}
        /\ config.human_readable <=> \E k \in 1..argi : args[k] = "-u"

C8_Witness ==
    /\ pc = "parse_instructions"
    /\ args = <<"prog", "-r", "-u", "-i">>
    /\ config.registers /\ config.human_readable
    /\ ~config.instructions /\ ~config.opcodes

NoOpcode63 == \A n \in 1..Len(instructions) : Top6(instructions[n]) # 63

\* C9: in opcode mode on a stream with no opcode 63, counter k is the number
\* of words folded that decode to I- or J-format and have bits 31-26 equal to
\* k; R-format words count nowhere, so counter 0 stays 0; the counters sum to
\* the I count plus the J count; and the rows printed are these counters.
C9_OpcodeAccounting ==
    (config.opcodes /\ NoOpcode63) =>
       /\ pc # "panicked"
       /\ pc \in {"handle_opcodes", "main_registers", "exit"} =>
             LET D == DecodedUpTo(i)
                 IJ == Tagged(D, {"IType", "JType"})
             IN  /\ \A k \in 0..(OpcodeSlots - 1) :
                       opcode_counts[k]
                          = Cardinality({n \in IJ : Top6(instructions[n]) = k})
                 /\ opcode_counts[0] = 0
                 /\ SumTo(opcode_counts, OpcodeSlots - 1) = Cardinality(IJ)
                 /\ pc # "handle_opcodes" =>
                       /\ i = Len(instructions)
                       /\ Len(out) >= OpcodeSlots
                       /\ \A k \in 0..(OpcodeSlots - 1) :
                             out[Len(out) - OpcodeSlots + 1 + k]
                                = <<k, opcode_counts[k]>>

C9_Witness ==
    /\ pc = "exit" /\ config.opcodes /\ NoOpcode63
    /\ Len(instructions) = 3
    /\ opcode_counts[2] = 1 /\ opcode_counts[8] = 1
    /\ SumTo(opcode_counts, OpcodeSlots - 1) = 2

\* C10: a word is decoded as J-format exactly when its bits 31-26 are 000010
\* or 000011, and every other word with a non-zero opcode as I-format.
C10_JumpIffOpcode2or3 ==
    Matched =>
       /\ ins.tag = "JType" <=> Top6(instructions[i]) \in {2, 3}
       /\ Top6(instructions[i]) \notin {0, 2, 3} => ins.tag = "IType"

====
